---------------------------- MODULE Spec2Model ----------------------------
(***************************************************************************)
(* Credit-risk scoring service: backend/prediction_helper.py, the request *)
(* handlers of backend/main.py that call it, and the script                *)
(* backend/populate_sample_data.py that fills the same tables.             *)
(*                                                                         *)
(* The module-level objects model, scaler, features_list and cols_to_scale *)
(* are set once when the module is imported.  predict() is modelled line   *)
(* by line, one action per statement group, for each caller in DOMAIN pc,  *)
(* so that concurrent calls interleave between any two reads of the        *)
(* module-level objects.                                                   *)
(*                                                                         *)
(* Numbers.  Python floats are modelled as exact rationals <<n, d>> with   *)
(* d > 0.  On every input enumerated here the IEEE-754 double evaluation   *)
(* of  int(300 + (1 - p) * 600)  gives the same integer as the exact one   *)
(* (p = r/100 for r in 0..150 clamped at 0.99, and p = k/N for N <= 20).   *)
(***************************************************************************)
EXTENDS Integers, Sequences, FiniteSets, TLC

(***************************************************************************)
(* Bounds of the exploration.                                              *)
(***************************************************************************)
\* The classifier's positive-class probability is k / ProbSteps, k in 0..ProbSteps.
ProbSteps == 7
\* Number of concurrent callers of predict in SpecConc.
NCallers == 2

(***************************************************************************)
(* Python values.                                                          *)
(***************************************************************************)
None == [kind |-> "None"]

IsNone(x) == x.kind = "None"

List(items) == [kind |-> "list", items |-> items]

Range(s) == { s[i] : i \in 1..Len(s) }

(***************************************************************************)
(* Exact rational arithmetic standing for float arithmetic.                *)
(***************************************************************************)
Rat(n, d) == <<n, d>>

RatInt(n) == <<n, 1>>

RatLess(a, b) == a[1] * b[2] < b[1] * a[2]

RatEq(a, b) == a[1] * b[2] = b[1] * a[2]

RatMin(a, b) == IF RatLess(b, a) THEN b ELSE a

RatSub(a, b) == <<a[1] * b[2] - b[1] * a[2], a[2] * b[2]>>

RatAdd(a, b) == <<a[1] * b[2] + b[1] * a[2], a[2] * b[2]>>

RatMul(a, b) == <<a[1] * b[1], a[2] * b[2]>>

\* Python int(): truncation toward zero.
PyInt(a) == IF a[1] >= 0 THEN a[1] \div a[2] ELSE -((-a[1]) \div a[2])

\* A raised exception, as the value of the expression that raised it.
Exc(name) == [kind |-> "Exception", name |-> name]

IsError(x) == x.kind = "Exception"

Num(q) == [kind |-> "num", q |-> q]

\* Python "/" on numbers: ZeroDivisionError on a zero divisor.
PyDiv(a, b) == IF b = 0 THEN Exc("ZeroDivisionError")
               ELSE IF b > 0 THEN Num(Rat(a, b)) ELSE Num(Rat(-a, -b))

(***************************************************************************)
(* prepare_input                                                           *)
(***************************************************************************)
\* Mutant: the ratio without the income guard.
loan_to_income_unguarded(loan_amount, income) == PyDiv(loan_amount, income)

\* loan_amount / income if income > 0 else 0
loan_to_income(loan_amount, income) ==
    IF income > 0 THEN PyDiv(loan_amount, income) ELSE Num(RatInt(0))

prepare_input(a) ==
    LET lti == loan_to_income(a.loan_amount, a.income) IN
    IF IsError(lti) THEN lti
    ELSE [kind |-> "dict",
          age |-> a.age,
          income |-> a.income,
          loan_amount |-> a.loan_amount,
          loan_tenure_months |-> a.loan_tenure_months,
          avg_dpd_per_delinquency |-> a.avg_dpd_per_delinquency,
          delinquency_ratio |-> a.delinquency_ratio,
          credit_utilization_ratio |-> a.credit_utilization_ratio,
          num_open_accounts |-> a.num_open_accounts,
          loan_to_income |-> lti.q,
          residence_type |-> a.residence_type,
          loan_purpose |-> a.loan_purpose,
          loan_type |-> a.loan_type]

(***************************************************************************)
(* calculate_credit_score                                                  *)
(***************************************************************************)
base_score == 300

scale_length == 600

AgeRisk(age) ==
    IF age < 25 THEN 15
    ELSE IF age < 35 THEN 10
    ELSE IF age < 50 THEN 5
    ELSE 0

\* Mutant: loan-to-income thresholds taken inclusively (>=).
LoanToIncomeRiskInclusive(lti) ==
    IF ~RatLess(lti, RatInt(5)) THEN 25
    ELSE IF ~RatLess(lti, RatInt(3)) THEN 15
    ELSE IF ~RatLess(lti, RatInt(2)) THEN 10
    ELSE 0

LoanToIncomeRisk(lti) ==
    IF RatLess(RatInt(5), lti) THEN 25
    ELSE IF RatLess(RatInt(3), lti) THEN 15
    ELSE IF RatLess(RatInt(2), lti) THEN 10
    ELSE 0

DelinquencyRisk(delinquency_ratio) ==
    IF delinquency_ratio > 50 THEN 30
    ELSE IF delinquency_ratio > 30 THEN 20
    ELSE IF delinquency_ratio > 10 THEN 10
    ELSE 0

UtilizationRisk(credit_utilization_ratio) ==
    IF credit_utilization_ratio > 80 THEN 20
    ELSE IF credit_utilization_ratio > 50 THEN 10
    ELSE IF credit_utilization_ratio > 30 THEN 5
    ELSE 0

DpdRisk(avg_dpd_per_delinquency) ==
    IF avg_dpd_per_delinquency > 30 THEN 25
    ELSE IF avg_dpd_per_delinquency > 15 THEN 15
    ELSE IF avg_dpd_per_delinquency > 5 THEN 8
    ELSE 0

OpenAccountsRisk(num_open_accounts) ==
    IF num_open_accounts > 3 THEN 10
    ELSE IF num_open_accounts < 2 THEN 5
    ELSE 0

ResidenceRisk(residence_type) ==
    IF residence_type = "Rented" THEN 10
    ELSE IF residence_type = "Mortgage" THEN 5
    ELSE 0

LoanTypeRisk(loan_type) ==
    IF loan_type = "Unsecured" THEN 15 ELSE 0

\* The local risk_score at line 121.
RiskScore(d) ==
      AgeRisk(d.age)
    + LoanToIncomeRisk(d.loan_to_income)
    + DelinquencyRisk(d.delinquency_ratio)
    + UtilizationRisk(d.credit_utilization_ratio)
    + DpdRisk(d.avg_dpd_per_delinquency)
    + OpenAccountsRisk(d.num_open_accounts)
    + ResidenceRisk(d.residence_type)
    + LoanTypeRisk(d.loan_type)

\* Mutant: no clamp.
HeuristicProbabilityNoClamp(r) == Rat(r, 100)

\* Mutant: clamp at 1.0 instead of 0.99.
HeuristicProbabilityClampOne(r) == RatMin(Rat(r, 100), Rat(100, 100))

\* Mutant: max where min is meant.
HeuristicProbabilityMax(r) ==
    IF RatLess(Rat(r, 100), Rat(99, 100)) THEN Rat(99, 100) ELSE Rat(r, 100)

\* default_probability = min(risk_score / 100, 0.99)
HeuristicProbability(r) == RatMin(Rat(r, 100), Rat(99, 100))

\* Mutant: the base score left out.
HeuristicScoreNoBase(p, base, length) ==
    PyInt(RatMul(RatSub(RatInt(1), p), RatInt(length)))

\* non_default_probability = 1 - default_probability
\* credit_score = int(base_score + non_default_probability * scale_length)
HeuristicScore(p, base, length) ==
    PyInt(RatAdd(RatInt(base), RatMul(RatSub(RatInt(1), p), RatInt(length))))

\* Mutant: the Good band closed at 750.
get_rating_closed_band(score) ==
    IF 300 <= score /\ score < 500 THEN "Poor"
    ELSE IF 500 <= score /\ score < 650 THEN "Average"
    ELSE IF 650 <= score /\ score <= 750 THEN "Good"
    ELSE IF 750 < score /\ score <= 900 THEN "Excellent"
    ELSE "Undefined"

get_rating(score) ==
    IF 300 <= score /\ score < 500 THEN "Poor"
    ELSE IF 500 <= score /\ score < 650 THEN "Average"
    ELSE IF 650 <= score /\ score < 750 THEN "Good"
    ELSE IF 750 <= score /\ score <= 900 THEN "Excellent"
    ELSE "Undefined"

Triple(p, s, r) ==
    [kind |-> "tuple", default_probability |-> p, credit_score |-> s, rating |-> r]

calculate_credit_score(d) ==
    LET r == RiskScore(d)
        p == HeuristicProbability(r)
        s == HeuristicScore(p, base_score, scale_length)
    IN  Triple(p, s, get_rating(s))

(***************************************************************************)
(* State.                                                                  *)
(***************************************************************************)
VARIABLES
    model,              \* module-level: the classifier, or None
    scaler,             \* module-level: the fitted rescaler, or None
    features_list,      \* module-level: the columns the classifier expects, or None
    cols_to_scale,      \* module-level: the columns the rescaler applies to, or None
    args,               \* args[c]: the eleven arguments of caller c's predict call
    pc,                 \* pc[c]: where caller c's call stands
    input_data,         \* predict's local input_data
    df,                 \* predict's local df (built from full_data)
    features_df,        \* predict's local features_df
    risk_score,         \* calculate_credit_score's local risk_score
    raised,             \* the except block of predict ran (its message was printed)
    path,               \* the return statement taken: "model" (line 222), "heuristic" (line 231)
    result,             \* the returned triple
    users,              \* the rows of the table of User
    applications,       \* the rows of the table of LoanApplication
    next_user_id,       \* the id the next row of User gets
    next_app_id,        \* the id the next row of LoanApplication gets
    populated,          \* the number of runs of create_sample_data
    response            \* the last call answered: the handler and its answer

globals == <<model, scaler, features_list, cols_to_scale>>

locals == <<args, pc, input_data, df, features_df, risk_score, raised, path, result>>

database == <<users, applications, next_user_id, next_app_id, populated>>

service == <<database, response>>

vars == <<model, scaler, features_list, cols_to_scale,
          args, pc, input_data, df, features_df, risk_score, raised, path, result,
          users, applications, next_user_id, next_app_id, populated, response>>

(***************************************************************************)
(* The model-backed path of predict.                                       *)
(***************************************************************************)
Cell(q) == [v |-> q, scaled |-> FALSE]

Frame(row) == [kind |-> "DataFrame", row |-> row]

OneHot(b) == IF b THEN 1 ELSE 0

\* The dictionary full_data, as the one-row DataFrame built from it.
full_data(a) ==
    LET lti == IF a.income > 0 THEN PyDiv(a.loan_amount, a.income) ELSE Num(RatInt(0)) IN
    IF IsError(lti) THEN lti
    ELSE Frame(
         [age |-> Cell(RatInt(a.age)),
          income |-> Cell(RatInt(a.income)),
          loan_amount |-> Cell(RatInt(a.loan_amount)),
          loan_tenure_months |-> Cell(RatInt(a.loan_tenure_months)),
          number_of_open_accounts |-> Cell(RatInt(a.num_open_accounts)),
          credit_utilization_ratio |-> Cell(RatInt(a.credit_utilization_ratio)),
          loan_to_income |-> Cell(lti.q),
          delinquency_ratio |-> Cell(RatInt(a.delinquency_ratio)),
          avg_dpd_per_delinquency |-> Cell(RatInt(a.avg_dpd_per_delinquency)),
          residence_type_Owned |-> Cell(RatInt(OneHot(a.residence_type = "Owned"))),
          residence_type_Rented |-> Cell(RatInt(OneHot(a.residence_type = "Rented"))),
          residence_type_Mortgage |-> Cell(RatInt(OneHot(a.residence_type = "Mortgage"))),
          loan_purpose_Education |-> Cell(RatInt(OneHot(a.loan_purpose = "Education"))),
          loan_purpose_Home |-> Cell(RatInt(OneHot(a.loan_purpose = "Home"))),
          loan_purpose_Personal |-> Cell(RatInt(OneHot(a.loan_purpose = "Personal"))),
          loan_type_Secured |-> Cell(RatInt(OneHot(a.loan_type = "Secured"))),
          loan_type_Unsecured |-> Cell(RatInt(OneHot(a.loan_type = "Unsecured"))),
          number_of_dependants |-> Cell(RatInt(2)),
          years_at_current_address |-> Cell(RatInt(3)),
          zipcode |-> Cell(RatInt(110001)),
          sanction_amount |-> Cell(RatInt(a.loan_amount)),
          processing_fee |-> Cell(Rat(a.loan_amount * 2, 100)),
          gst |-> Cell(Rat(a.loan_amount * 36, 10000)),
          net_disbursement |-> Cell(Rat(a.loan_amount * 98, 100)),
          principal_outstanding |-> Cell(Rat(a.loan_amount * 5, 10)),
          bank_balance_at_application |-> Cell(Rat(a.income * 3, 10)),
          number_of_closed_accounts |-> Cell(RatInt(2)),
          enquiry_count |-> Cell(RatInt(1))])

\* if model is not None and features_list is not None and len(features_list) > 0
ModelAvailable ==
    /\ ~IsNone(model)
    /\ ~IsNone(features_list)
    /\ Len(features_list.items) > 0

\* df[columns]: KeyError when a column is not in the frame (or columns is None).
Columns(frame, columns) ==
    IF IsNone(columns) THEN Exc("KeyError")
    ELSE IF \E i \in 1..Len(columns.items) : columns.items[i] \notin DOMAIN frame.row
    THEN Exc("KeyError")
    ELSE Frame([col \in Range(columns.items) |-> frame.row[col]])

\* scaler.transform(X): the fitted rescaler refuses an input whose number of
\* columns is not the number it was fitted on; its numeric output is opaque and
\* recorded as a mark on the cell.
Transform(s, frame) ==
    IF Cardinality(DOMAIN frame.row) # s.n_features_in
    THEN Exc("ValueError")
    ELSE Frame([col \in DOMAIN frame.row |-> [v |-> frame.row[col].v, scaled |-> TRUE]])

\* if scaler is not None and cols_to_scale is not None and len(cols_to_scale) > 0:
\*     df[cols_to_scale] = scaler.transform(df[cols_to_scale])
ApplyScaling(frame) ==
    IF ~IsNone(scaler) /\ ~IsNone(cols_to_scale) /\ Len(cols_to_scale.items) > 0
    THEN LET sub == Columns(frame, cols_to_scale) IN
         IF IsError(sub) THEN sub
         ELSE LET out == Transform(scaler, sub) IN
              IF IsError(out) THEN out
              ELSE Frame([col \in DOMAIN frame.row |->
                            IF col \in DOMAIN out.row THEN out.row[col]
                            ELSE frame.row[col]])
    ELSE frame

\* What the classifier's answer depends on: the classifier is a table over the
\* value of the column loan_type_Unsecured of the frame it is given (0 when the
\* frame lacks the column).
FeatureKey(frame) ==
    IF "loan_type_Unsecured" \in DOMAIN frame.row
       /\ frame.row["loan_type_Unsecured"].v = RatInt(1)
    THEN 1 ELSE 0

\* model.predict_proba(features_df)[0][1]: a probability, or an exception
\* (AttributeError when the module-level model is None).
predict_proba(m, frame) ==
    IF IsNone(m) THEN Exc("AttributeError") ELSE m.proba[FeatureKey(frame)]

\* Mutant: a score of exactly 750 is not yet Excellent.
ModelRatingAbove(credit_score) ==
    IF credit_score > 750 THEN "Excellent"
    ELSE IF credit_score >= 650 THEN "Good"
    ELSE IF credit_score >= 500 THEN "Average"
    ELSE "Poor"

\* if credit_score >= 750 ... elif >= 650 ... elif >= 500 ... else
ModelRating(credit_score) ==
    IF credit_score >= 750 THEN "Excellent"
    ELSE IF credit_score >= 650 THEN "Good"
    ELSE IF credit_score >= 500 THEN "Average"
    ELSE "Poor"

\* Mutant: round() where int() is meant.
ModelScoreRounded(p) ==
    LET x == RatAdd(RatInt(300), RatMul(RatSub(RatInt(1), p), RatInt(600)))
    IN  (2 * x[1] + x[2]) \div (2 * x[2])

\* non_default_probability = 1 - default_probability
\* credit_score = int(300 + non_default_probability * 600)
ModelScore(p) ==
    PyInt(RatAdd(RatInt(300), RatMul(RatSub(RatInt(1), p), RatInt(600))))

ModelResult(p) == Triple(p, ModelScore(p), ModelRating(ModelScore(p)))

(***************************************************************************)
(* Module import (lines 9-35): joblib.load either yields the bundle        *)
(* model_data, or raises and leaves the four module-level objects None.    *)
(***************************************************************************)
Classifier(proba) == [kind |-> "classifier", proba |-> proba]

Scaler(n) == [kind |-> "scaler", n_features_in |-> n]

ModelData(m, s, f, cs) ==
    [kind |-> "dict", model |-> m, scaler |-> s, features |-> f, cols_to_scale |-> cs]

LoadFailed == None

\* The values of (model, scaler, features_list, cols_to_scale) after import.
LoadModule(model_data) ==
    IF IsNone(model_data)
    THEN <<None, None, None, None>>
    ELSE <<model_data.model, model_data.scaler, model_data.features,
           model_data.cols_to_scale>>

(***************************************************************************)
(* Inputs.                                                                 *)
(***************************************************************************)
Applicant(age, inc, loan, ten, dpd, delinq, util, acc, res, purpose, type) ==
    [age |-> age, income |-> inc, loan_amount |-> loan,
     loan_tenure_months |-> ten, avg_dpd_per_delinquency |-> dpd,
     delinquency_ratio |-> delinq, credit_utilization_ratio |-> util,
     num_open_accounts |-> acc, residence_type |-> res,
     loan_purpose |-> purpose, loan_type |-> type]

\* The two worked examples.
ExampleLowRisk ==
    Applicant(30, 500000, 1000000, 36, 2, 5, 20, 2, "Owned", "Personal", "Secured")

ExampleHighRisk ==
    Applicant(22, 300000, 2000000, 60, 40, 60, 90, 5, "Rented", "Medical", "Unsecured")

\* One value in every band of every factor, in all combinations.
GridApplicants ==
    { Applicant(age, income, loan, 36, dpd, delinq, util, accounts, residence,
                "Personal", type) :
        age \in {22, 30, 40, 55},
        income \in {300000, 500000},
        loan \in {1000000, 1500000, 2000000},
        dpd \in {2, 10, 20, 40},
        delinq \in {5, 20, 40, 60},
        util \in {20, 40, 60, 90},
        accounts \in {1, 2, 5},
        residence \in {"Owned", "Rented", "Mortgage"},
        type \in {"Secured", "Unsecured"} }

\* The low-risk example with one argument moved onto, or just across, a threshold.
EdgeApplicants ==
    LET e == ExampleLowRisk IN
       { [e EXCEPT !.age = x] : x \in {24, 25, 34, 35, 49, 50} }
    \cup { [e EXCEPT !.income = x] : x \in {0, -1, 1} }
    \cup { [e EXCEPT !.loan_amount = x] : x \in {0, 1000001, 1500001, 2500000, 2500001} }
    \cup { [e EXCEPT !.avg_dpd_per_delinquency = x] : x \in {5, 6, 15, 16, 30, 31} }
    \cup { [e EXCEPT !.delinquency_ratio = x] : x \in {10, 11, 30, 31, 50, 51} }
    \cup { [e EXCEPT !.credit_utilization_ratio = x] : x \in {30, 31, 50, 51, 80, 81} }
    \cup { [e EXCEPT !.num_open_accounts = x] : x \in {0, 3, 4} }
    \cup { [e EXCEPT !.residence_type = x] : x \in {"Other"} }
    \cup { [e EXCEPT !.loan_purpose = x] : x \in {"Education", "Home", "Medical"} }
    \cup { [e EXCEPT !.loan_type = x] : x \in {"Personal Loan"} }
    \cup { ExampleHighRisk, [ExampleHighRisk EXCEPT !.income = 0] }

Applicants == GridApplicants \cup EdgeApplicants

\* The applicants scored with a bundle loaded.
ModelApplicants ==
    { ExampleLowRisk, ExampleHighRisk,
      [ExampleLowRisk EXCEPT !.income = 0],
      [ExampleHighRisk EXCEPT !.loan_purpose = "Education", !.residence_type = "Mortgage"] }

\* predict_proba's answer: k / ProbSteps, or an exception.
Outcomes ==
    { Num(Rat(k, ProbSteps)) : k \in 0..ProbSteps } \cup { Exc("ValueError") }

Classifiers == { Classifier(t) : t \in [0..1 -> Outcomes] }

ExpectedFeatures ==
    <<"age", "loan_tenure_months", "number_of_open_accounts",
      "credit_utilization_ratio", "loan_to_income", "delinquency_ratio",
      "avg_dpd_per_delinquency", "residence_type_Owned", "residence_type_Rented",
      "loan_purpose_Education", "loan_purpose_Home", "loan_purpose_Personal",
      "loan_type_Unsecured">>

\* A feature list naming a column full_data does not have.
UnknownFeatures == Append(ExpectedFeatures, "loan_purpose_Auto")

ScaledColumns ==
    <<"age", "loan_tenure_months", "number_of_open_accounts",
      "credit_utilization_ratio", "loan_to_income", "delinquency_ratio",
      "avg_dpd_per_delinquency">>

UnknownScaledColumns == Append(ScaledColumns, "credit_history_months")

FeatureLists == { None, List(<<>>), List(ExpectedFeatures), List(UnknownFeatures) }

ColumnLists == { None, List(<<>>), List(ScaledColumns), List(UnknownScaledColumns) }

\* No rescaler, one fitted on the scaled columns, one fitted on one column more.
Scalers == { None, Scaler(Len(ScaledColumns)), Scaler(Len(ScaledColumns) + 1) }

Bundles ==
    { ModelData(m, s, f, cs) :
        m \in Classifiers, s \in Scalers, f \in FeatureLists, cs \in ColumnLists }

\* No call of the service has been answered.
NoResponse == [op |-> "none", code |-> 0, detail |-> ""]

(***************************************************************************)
(* Initial states: the module is imported, every caller is about to call   *)
(* predict with its arguments.                                             *)
(***************************************************************************)
InitWith(callers, model_data, applicants) ==
    /\ model = LoadModule(model_data)[1]
    /\ scaler = LoadModule(model_data)[2]
    /\ features_list = LoadModule(model_data)[3]
    /\ cols_to_scale = LoadModule(model_data)[4]
    /\ args \in [callers -> applicants]
    /\ pc = [c \in callers |-> "call"]
    /\ input_data = [c \in callers |-> None]
    /\ df = [c \in callers |-> None]
    /\ features_df = [c \in callers |-> None]
    /\ risk_score = [c \in callers |-> None]
    /\ raised = [c \in callers |-> FALSE]
    /\ path = [c \in callers |-> "none"]
    /\ result = [c \in callers |-> None]
    /\ users = {}
    /\ applications = {}
    /\ next_user_id = 1
    /\ next_app_id = 1
    /\ populated = 0
    /\ response = NoResponse

\* One caller: every applicant when the load failed, the model applicants
\* with every bundle.
Init ==
    \/ InitWith({1}, LoadFailed, Applicants)
    \/ \E b \in Bundles : InitWith({1}, b, ModelApplicants)

(***************************************************************************)
(* predict, statement by statement, for caller c.                          *)
(***************************************************************************)
\* lines 152-156: input_data = prepare_input(...).  An exception here is
\* outside the try block and reaches the caller.
Prepare(c) ==
    /\ pc[c] = "call"
    /\ LET d == prepare_input(args[c]) IN
       IF IsError(d)
       THEN /\ pc' = [pc EXCEPT ![c] = "error"]
            /\ UNCHANGED input_data
       ELSE /\ pc' = [pc EXCEPT ![c] = "check_model"]
            /\ input_data' = [input_data EXCEPT ![c] = d]
    /\ UNCHANGED <<service, globals, args, df, features_df, risk_score, raised, path, result>>

\* line 159
CheckModel(c) ==
    /\ pc[c] = "check_model"
    /\ pc' = [pc EXCEPT ![c] = IF ModelAvailable THEN "build" ELSE "fallback"]
    /\ UNCHANGED <<service, globals, args, input_data, df, features_df, risk_score, raised,
                   path, result>>

\* lines 162-195: full_data, df = pd.DataFrame([full_data])
BuildFrame(c) ==
    /\ pc[c] = "build"
    /\ LET f == full_data(args[c]) IN
       IF IsError(f)
       THEN /\ pc' = [pc EXCEPT ![c] = "except"]
            /\ UNCHANGED df
       ELSE /\ pc' = [pc EXCEPT ![c] = "scale"]
            /\ df' = [df EXCEPT ![c] = f]
    /\ UNCHANGED <<service, globals, args, input_data, features_df, risk_score, raised, path,
                   result>>

\* lines 198-199
Scale(c) ==
    /\ pc[c] = "scale"
    /\ LET f == ApplyScaling(df[c]) IN
       IF IsError(f)
       THEN /\ pc' = [pc EXCEPT ![c] = "except"]
            /\ UNCHANGED df
       ELSE /\ pc' = [pc EXCEPT ![c] = "select"]
            /\ df' = [df EXCEPT ![c] = f]
    /\ UNCHANGED <<service, globals, args, input_data, features_df, risk_score, raised, path,
                   result>>

\* line 202: features_df = df[features_list]
Select(c) ==
    /\ pc[c] = "select"
    /\ LET f == Columns(df[c], features_list) IN
       IF IsError(f)
       THEN /\ pc' = [pc EXCEPT ![c] = "except"]
            /\ UNCHANGED features_df
       ELSE /\ pc' = [pc EXCEPT ![c] = "proba"]
            /\ features_df' = [features_df EXCEPT ![c] = f]
    /\ UNCHANGED <<service, globals, args, input_data, df, risk_score, raised, path, result>>

\* lines 205-222: the classifier's probability, the score, the rating, return.
Proba(c) ==
    /\ pc[c] = "proba"
    /\ LET out == predict_proba(model, features_df[c]) IN
       IF IsError(out)
       THEN /\ pc' = [pc EXCEPT ![c] = "except"]
            /\ UNCHANGED <<path, result>>
       ELSE /\ pc' = [pc EXCEPT ![c] = "done"]
            /\ path' = [path EXCEPT ![c] = "model"]
            /\ result' = [result EXCEPT ![c] = ModelResult(out.q)]
    /\ UNCHANGED <<service, globals, args, input_data, df, features_df, risk_score, raised>>

\* Mutant: the handler re-raises.
ExceptReraise(c) ==
    /\ pc[c] = "except"
    /\ pc' = [pc EXCEPT ![c] = "error"]
    /\ raised' = [raised EXCEPT ![c] = TRUE]
    /\ UNCHANGED <<service, globals, args, input_data, df, features_df, risk_score, path,
                   result>>

\* Mutant: the handler switches the classifier off for later calls.
ExceptDisablesModel(c) ==
    /\ pc[c] = "except"
    /\ pc' = [pc EXCEPT ![c] = "fallback"]
    /\ raised' = [raised EXCEPT ![c] = TRUE]
    /\ model' = None
    /\ UNCHANGED <<service, scaler, features_list, cols_to_scale, args, input_data, df,
                   features_df, risk_score, path, result>>

\* lines 224-226: except Exception: print, fall through.
Except(c) ==
    /\ pc[c] = "except"
    /\ pc' = [pc EXCEPT ![c] = "fallback"]
    /\ raised' = [raised EXCEPT ![c] = TRUE]
    /\ UNCHANGED <<service, globals, args, input_data, df, features_df, risk_score, path,
                   result>>

\* lines 229-231: calculate_credit_score(input_data), return.
Fallback(c) ==
    /\ pc[c] = "fallback"
    /\ pc' = [pc EXCEPT ![c] = "done"]
    /\ path' = [path EXCEPT ![c] = "heuristic"]
    /\ risk_score' = [risk_score EXCEPT ![c] = Num(RatInt(RiskScore(input_data[c])))]
    /\ result' = [result EXCEPT ![c] = calculate_credit_score(input_data[c])]
    /\ UNCHANGED <<service, globals, args, input_data, df, features_df, raised>>

Next ==
    \/ \E c \in DOMAIN pc : Prepare(c)
    \/ \E c \in DOMAIN pc : CheckModel(c)
    \/ \E c \in DOMAIN pc : BuildFrame(c)
    \/ \E c \in DOMAIN pc : Scale(c)
    \/ \E c \in DOMAIN pc : Select(c)
    \/ \E c \in DOMAIN pc : Proba(c)
    \/ \E c \in DOMAIN pc : Except(c)
    \/ \E c \in DOMAIN pc : Fallback(c)

Spec == Init /\ [][Next]_vars

(***************************************************************************)
(* predict as one call: what a caller alone gets for arguments a with the  *)
(* module-level objects as they stand.                                     *)
(***************************************************************************)
\* The try block, lines 160-222: the returned triple, or the exception raised.
TryModel(a) ==
    LET f == full_data(a) IN
    IF IsError(f) THEN f
    ELSE LET g == ApplyScaling(f) IN
         IF IsError(g) THEN g
         ELSE LET h == Columns(g, features_list) IN
              IF IsError(h) THEN h
              ELSE LET out == predict_proba(model, h) IN
                   IF IsError(out) THEN out ELSE ModelResult(out.q)

predict(a) ==
    LET d == prepare_input(a) IN
    IF IsError(d) THEN d
    ELSE IF ModelAvailable
         THEN LET t == TryModel(a) IN
              IF IsError(t) THEN calculate_credit_score(d) ELSE t
         ELSE calculate_credit_score(d)

(***************************************************************************)
(* Concurrent callers: a handful of bundles and applicants, NCallers calls *)
(* in flight at once.                                                      *)
(***************************************************************************)
ConcOutcomes ==
    { Num(Rat(1, ProbSteps)), Num(Rat(ProbSteps, ProbSteps)), Exc("ValueError") }

ConcBundles ==
    { LoadFailed } \cup
    { ModelData(Classifier(t), s, f, List(ScaledColumns)) :
        t \in [0..1 -> ConcOutcomes],
        s \in { None, Scaler(Len(ScaledColumns)) },
        f \in { None, List(ExpectedFeatures) } }

ConcApplicants == { ExampleLowRisk, ExampleHighRisk }

InitConc == \E b \in ConcBundles : InitWith(1..NCallers, b, ConcApplicants)

SpecConc == InitConc /\ [][Next]_vars

(***************************************************************************)
(* The service of backend/main.py over the tables of User and              *)
(* LoanApplication, and the script backend/populate_sample_data.py over    *)
(* the same tables.  One action is one request answered, or one run of the *)
(* script; predict is the one-call operator above.  Columns that no        *)
(* handler reads (full_name apart, the timestamps, repaid_amount) are left *)
(* out of the rows.                                                        *)
(***************************************************************************)
\* The handlers insert at most MaxUsers rows of User and MaxApps rows of
\* LoanApplication.
MaxUsers == 2
MaxApps == 2
\* The script populate_sample_data.py is run at most MaxRuns times.
MaxRuns == 1

\* A Python str.
Str(s) == [kind |-> "str", s |-> s]

\* A value of a Float column.
Float(x) == RatInt(x)

\* pwd_context.hash(password): the bcrypt digest of the password, a string of
\* the form $2b$... that is never the password itself.
pwd_context_hash(password) == [kind |-> "str", s |-> password, digest |-> "bcrypt"]

\* A password as it is typed into a request, and as signup stores it.
PlainText(password) == [kind |-> "str", s |-> password, digest |-> "none"]

(***************************************************************************)
(* signup                                                                  *)
(***************************************************************************)
SignupRequest(full_name, email, mobile_number, aadhar, password) ==
    [full_name |-> full_name, email |-> email, mobile_number |-> mobile_number,
     aadhar |-> aadhar, password |-> password]

User(id, full_name, email, mobile_number, aadhar, hashed_password) ==
    [id |-> id, full_name |-> full_name, email |-> email,
     mobile_number |-> mobile_number, aadhar |-> aadhar,
     hashed_password |-> hashed_password]

\* An HTTPException, or the answer of a handler that returned.
Answer(op, code, detail) == [op |-> op, code |-> code, detail |-> detail]

\* Mutant: the aadhar check is missing.
SignupConflictNoAadhar(request) ==
    IF \E u \in users : u.email = request.email
    THEN "Email already registered"
    ELSE IF \E u \in users : u.mobile_number = request.mobile_number
    THEN "Mobile number already registered"
    ELSE ""

\* lines 60-82: the three uniqueness checks in order; "" when all pass.
SignupConflict(request) ==
    IF \E u \in users : u.email = request.email
    THEN "Email already registered"
    ELSE IF \E u \in users : u.mobile_number = request.mobile_number
    THEN "Mobile number already registered"
    ELSE IF \E u \in users : u.aadhar = request.aadhar
    THEN "Aadhar already registered"
    ELSE ""

Signup(request) ==
    /\ IF SignupConflict(request) # ""
       THEN /\ response' = Answer("signup", 400, SignupConflict(request))
            /\ UNCHANGED database
       ELSE /\ next_user_id <= MaxUsers
            /\ users' = users \cup
                 { User(next_user_id, request.full_name, request.email,
                        request.mobile_number, request.aadhar,
                        PlainText(request.password)) }
            /\ next_user_id' = next_user_id + 1
            /\ response' = Answer("signup", 201, "User registered successfully")
            /\ UNCHANGED <<applications, next_app_id, populated>>
    /\ UNCHANGED <<globals, locals>>

(***************************************************************************)
(* login                                                                   *)
(***************************************************************************)
LoginRequest(identifier, password) == [identifier |-> identifier, password |-> password]

\* lines 108-119: by email first, then by mobile number, then by aadhar.
FindUser(identifier) ==
    IF \E u \in users : u.email = identifier
    THEN CHOOSE u \in users : u.email = identifier
    ELSE IF \E u \in users : u.mobile_number = identifier
    THEN CHOOSE u \in users : u.mobile_number = identifier
    ELSE IF \E u \in users : u.aadhar = identifier
    THEN CHOOSE u \in users : u.aadhar = identifier
    ELSE None

\* lines 122-138
Login(request) ==
    /\ LET user == FindUser(request.identifier) IN
       IF user = None
       THEN response' = Answer("login", 401, "User not found")
       ELSE IF user.hashed_password # PlainText(request.password)
       THEN response' = Answer("login", 401, "Invalid password")
       ELSE response' = Answer("login", 200, "Login successful")
    /\ UNCHANGED <<database, globals, locals>>

(***************************************************************************)
(* apply_for_loan                                                          *)
(***************************************************************************)
\* The eleven attribute columns as apply_for_loan fills them from a request;
\* the two ratios and the average days past due are Float columns.
AttributeColumns(request) ==
    [age |-> request.age,
     income |-> request.income,
     loan_amount |-> request.loan_amount,
     loan_tenure_months |-> request.loan_tenure_months,
     avg_dpd_per_delinquency |-> Float(request.avg_dpd_per_delinquency),
     delinquency_ratio |-> Float(request.delinquency_ratio),
     credit_utilization_ratio |-> Float(request.credit_utilization_ratio),
     num_open_accounts |-> request.num_open_accounts,
     residence_type |-> request.residence_type,
     loan_purpose |-> request.loan_purpose,
     loan_type |-> request.loan_type]

AttributeNames == DOMAIN AttributeColumns(ExampleLowRisk)

Attributes(application) == [n \in AttributeNames |-> application[n]]

\* A row of LoanApplication: the attribute columns, the prediction columns, the
\* review columns.
LoanApplication(id, user_id, columns, prediction, review) ==
    columns @@ prediction @@ review @@ [id |-> id, user_id |-> user_id]

Prediction(default_probability, credit_score, rating) ==
    [default_probability |-> default_probability, credit_score |-> credit_score,
     rating |-> rating]

Review(status, approved_by, disbursed_amount, rejection_reason) ==
    [status |-> status, approved_by |-> approved_by,
     disbursed_amount |-> disbursed_amount, rejection_reason |-> rejection_reason]

\* Mutant: the duplicate check looks at the attributes only.
IdenticalAnyUser(application, user_id, request) ==
    Attributes(application) = AttributeColumns(request)

\* lines 168-181: the filter of the duplicate query.
Identical(application, user_id, request) ==
    /\ application.user_id = user_id
    /\ Attributes(application) = AttributeColumns(request)

\* Mutant: the status follows the rating.
application_status_by_rating(rating) ==
    IF rating \in {"Good", "Excellent"} THEN "Approved" ELSE "Pending"

\* line 211
application_status(rating) == "Pending"

ApplyForLoan(user_id, request) ==
    /\ IF ~\E u \in users : u.id = user_id
       THEN /\ response' = Answer("apply_for_loan", 404, "User not found")
            /\ UNCHANGED database
       ELSE IF \E app \in applications : Identical(app, user_id, request)
       THEN /\ response' = Answer("apply_for_loan", 400,
                                  "Identical application already exists")
            /\ UNCHANGED database
       ELSE LET t == predict(request) IN
            IF IsError(t)
            THEN /\ response' = Answer("apply_for_loan", 500, "Prediction failed")
                 /\ UNCHANGED database
            ELSE /\ next_app_id <= MaxApps
                 /\ applications' = applications \cup
                      { LoanApplication(next_app_id, user_id, AttributeColumns(request),
                            Prediction(t.default_probability, t.credit_score, t.rating),
                            Review(application_status(t.rating), None, None, None)) }
                 /\ next_app_id' = next_app_id + 1
                 /\ response' = Answer("apply_for_loan", 201,
                        "Application submitted successfully. Awaiting admin review.")
                 /\ UNCHANGED <<users, next_user_id, populated>>
    /\ UNCHANGED <<globals, locals>>

(***************************************************************************)
(* The admin's queries.                                                    *)
(***************************************************************************)
\* lines 377-381 of get_dashboard_stats
get_dashboard_stats ==
    [total_users |-> Cardinality(users),
     total_applications |-> Cardinality(applications),
     approved_count |-> Cardinality({app \in applications : app.status = "Approved"}),
     rejected_count |-> Cardinality({app \in applications : app.status = "Rejected"}),
     pending_count |-> Cardinality({app \in applications : app.status = "Pending"})]

\* The ids of the rows get_pending_applications lists.
get_pending_applications == { app.id : app \in {x \in applications : x.status = "Pending"} }

\* Mutant: the history lists the approved rows only.
get_application_history_approved ==
    { app.id : app \in {x \in applications : x.status = "Approved"} }

\* The ids of the rows get_application_history lists when no filter is given.
get_application_history ==
    { app.id : app \in {x \in applications : x.status \in {"Approved", "Rejected"}} }

(***************************************************************************)
(* approve_application, reject_application                                 *)
(***************************************************************************)
ApprovalRequest(disbursed_amount) == [disbursed_amount |-> disbursed_amount]

RejectionRequest(rejection_reason) == [rejection_reason |-> rejection_reason]

\* Python truth value of None or a number.
Truthy(x) == ~IsNone(x) /\ x.q[1] # 0

\* request.disbursed_amount or application.loan_amount
disbursed_amount_or_loan_amount(given, loan_amount) ==
    IF Truthy(given) THEN given ELSE Num(Float(loan_amount))

\* Mutant: no application counts as processed.
AlreadyProcessedNever(application) == FALSE

\* if application.status != "Pending"
AlreadyProcessed(application) == application.status # "Pending"

ApproveApplication(app_id, request, admin_id) ==
    /\ IF ~\E app \in applications : app.id = app_id
       THEN /\ response' = Answer("approve_application", 404, "Application not found")
            /\ UNCHANGED database
       ELSE LET application == CHOOSE app \in applications : app.id = app_id IN
            IF AlreadyProcessed(application)
            THEN /\ response' = Answer("approve_application", 400,
                                       "Application already processed")
                 /\ UNCHANGED database
            ELSE /\ applications' = (applications \ {application}) \cup
                      { [application EXCEPT
                           !.status = "Approved",
                           !.approved_by = Num(RatInt(admin_id)),
                           !.disbursed_amount =
                               disbursed_amount_or_loan_amount(request.disbursed_amount,
                                                               application.loan_amount)] }
                 /\ response' = Answer("approve_application", 200,
                                       "Application approved successfully")
                 /\ UNCHANGED <<users, next_user_id, next_app_id, populated>>
    /\ UNCHANGED <<globals, locals>>

RejectApplication(app_id, request, admin_id) ==
    /\ IF ~\E app \in applications : app.id = app_id
       THEN /\ response' = Answer("reject_application", 404, "Application not found")
            /\ UNCHANGED database
       ELSE LET application == CHOOSE app \in applications : app.id = app_id IN
            IF AlreadyProcessed(application)
            THEN /\ response' = Answer("reject_application", 400,
                                       "Application already processed")
                 /\ UNCHANGED database
            ELSE /\ applications' = (applications \ {application}) \cup
                      { [application EXCEPT
                           !.status = "Rejected",
                           !.approved_by = Num(RatInt(admin_id)),
                           !.rejection_reason = Str(request.rejection_reason)] }
                 /\ response' = Answer("reject_application", 200,
                                       "Application rejected successfully")
                 /\ UNCHANGED <<users, next_user_id, next_app_id, populated>>
    /\ UNCHANGED <<globals, locals>>

(***************************************************************************)
(* delete_user, delete_application                                         *)
(***************************************************************************)
\* Mutant: the applications of the deleted user are kept.
ApplicationsWithoutKept(user_id) == applications

\* line 617: the rows left by the bulk delete.
ApplicationsWithout(user_id) == { app \in applications : app.user_id # user_id }

DeleteUser(user_id) ==
    /\ IF ~\E u \in users : u.id = user_id
       THEN /\ response' = Answer("delete_user", 404, "User not found")
            /\ UNCHANGED database
       ELSE /\ applications' = ApplicationsWithout(user_id)
            /\ users' = { u \in users : u.id # user_id }
            /\ response' = Answer("delete_user", 200,
                                  "User and associated applications deleted successfully")
            /\ UNCHANGED <<next_user_id, next_app_id, populated>>
    /\ UNCHANGED <<globals, locals>>

DeleteApplication(app_id) ==
    /\ IF ~\E app \in applications : app.id = app_id
       THEN /\ response' = Answer("delete_application", 404, "Application not found")
            /\ UNCHANGED database
       ELSE /\ applications' = { app \in applications : app.id # app_id }
            /\ response' = Answer("delete_application", 200,
                                  "Application deleted successfully")
            /\ UNCHANGED <<users, next_user_id, next_app_id, populated>>
    /\ UNCHANGED <<globals, locals>>

(***************************************************************************)
(* update_application                                                      *)
(***************************************************************************)
\* A number in a parameter that predict compares with category names: it equals
\* none of them.
NumberAsName == "<number>"

\* lines 643-655: the eleven positional arguments in the order of predict's
\* parameters (age, income, loan_amount, loan_tenure_months,
\* avg_dpd_per_delinquency, delinquency_ratio, credit_utilization_ratio,
\* num_open_accounts, residence_type, loan_purpose, loan_type).
Positional(request) ==
    Applicant(request.income, request.loan_amount, request.loan_tenure_months,
              request.credit_utilization_ratio, request.num_open_accounts,
              Str(request.residence_type), Str(request.loan_purpose),
              Str(request.loan_type), NumberAsName, NumberAsName, NumberAsName)

\* The columns of the frame that hold a str under that binding.
StrColumns == {"delinquency_ratio", "credit_utilization_ratio", "number_of_open_accounts"}

\* Whether the rescaler or the classifier is handed one of those columns
\* (each then raises ValueError inside the try block of predict).
ReadsStrColumn ==
    \/ /\ ~IsNone(scaler) /\ ~IsNone(cols_to_scale)
       /\ Range(cols_to_scale.items) \cap StrColumns # {}
    \/ Range(features_list.items) \cap StrColumns # {}

\* predict under that binding: the triple of the model-backed path when it
\* reads no str column and raises nothing; else the heuristic rules run and
\* raise TypeError at  input_data['delinquency_ratio'] > 50  (line 82).
PredictPositional(request) ==
    LET a == Positional(request)
        d == prepare_input(a)
    IN  IF IsError(d) THEN d
        ELSE IF ModelAvailable
        THEN IF ~ReadsStrColumn /\ ~IsError(TryModel(a))
             THEN TryModel(a)
             ELSE Exc("TypeError")
        ELSE Exc("TypeError")

\* value[key] with a str key: TypeError on a tuple.
Subscript(value, key) ==
    IF value.kind = "tuple" THEN Exc("TypeError") ELSE value[key]

\* lines 630-659: None when every statement ran, else the exception raised.
\* request.num_inquiries raises AttributeError on a request without the field.
UpdateRaises(request) ==
    IF "num_inquiries" \notin DOMAIN request
    THEN Exc("AttributeError")
    ELSE LET prediction_result == PredictPositional(request) IN
         IF IsError(prediction_result) THEN prediction_result
         ELSE LET credit_score == Subscript(prediction_result, "credit_score") IN
              IF IsError(credit_score) THEN credit_score ELSE None

\* The row after lines 630-659 ran without an exception (age keeps its value).
Updated(application, request) ==
    LET t == PredictPositional(request) IN
    [n \in DOMAIN application |->
        IF n \in AttributeNames \ {"age"} THEN AttributeColumns(request)[n]
        ELSE IF n \in {"default_probability", "credit_score", "rating"}
        THEN Subscript(t, n)
        ELSE application[n]]

\* An exception leaves the handler before db.commit(): the row is not written
\* and the framework answers 500.
UpdateApplication(app_id, request) ==
    /\ IF ~\E app \in applications : app.id = app_id
       THEN /\ response' = Answer("update_application", 404, "Application not found")
            /\ UNCHANGED database
       ELSE LET application == CHOOSE app \in applications : app.id = app_id IN
            IF IsError(UpdateRaises(request))
            THEN /\ response' = Answer("update_application", 500,
                                       "Internal Server Error")
                 /\ UNCHANGED database
            ELSE /\ applications' = (applications \ {application}) \cup
                                    { Updated(application, request) }
                 /\ response' = Answer("update_application", 200,
                                       "Application updated successfully")
                 /\ UNCHANGED <<users, next_user_id, next_app_id, populated>>
    /\ UNCHANGED <<globals, locals>>

(***************************************************************************)
(* populate_sample_data.create_sample_data.  The first of the eight sample *)
(* users stands for the list, and one pass of each of the three loops for  *)
(* its 5, 8 and 4 passes; of the random draws only credit_score varies,    *)
(* the other columns take one value of their range.                        *)
(***************************************************************************)
SampleUser ==
    [full_name |-> "Rajesh Kumar", email |-> "rajesh.kumar@example.com",
     mobile_number |-> "8876543210", aadhar |-> "223456789012"]

\* The password the script prints for the sample users (line 275).
SamplePassword == "password123"

\* lines 142-147 (and 177-182, 218-223)
SampleRating(credit_score) ==
    IF credit_score >= 750 THEN "High"
    ELSE IF credit_score >= 500 THEN "Medium"
    ELSE "Low"

SampleColumns(age, income, loan_amount, dpd, delinq, util) ==
    [age |-> age, income |-> income, loan_amount |-> loan_amount,
     loan_tenure_months |-> 12, avg_dpd_per_delinquency |-> dpd,
     delinquency_ratio |-> delinq, credit_utilization_ratio |-> util,
     num_open_accounts |-> 2, residence_type |-> "Owned",
     loan_purpose |-> "Medical", loan_type |-> "Personal Loan"]

\* lines 137-170
SamplePending(id, user, credit_score) ==
    LoanApplication(id, user.id,
        SampleColumns(25, 300000, 50000, Rat(1, 2), Rat(1, 4), Rat(1, 2)),
        Prediction(Rat(1, 4), credit_score, SampleRating(credit_score)),
        Review("Pending", None, None, None))

\* lines 173-211
SampleApproved(id, user, credit_score, admin_id) ==
    LoanApplication(id, user.id,
        SampleColumns(25, 400000, 100000, Rat(1, 2), Rat(1, 4), Rat(1, 2)),
        Prediction(Rat(1, 10), credit_score, SampleRating(credit_score)),
        Review("Approved", Num(RatInt(admin_id)), Num(Float(100000)), None))

\* lines 214-255
SampleRejected(id, user, credit_score, admin_id) ==
    LoanApplication(id, user.id,
        SampleColumns(22, 200000, 100000, Rat(21, 2), Rat(1, 2), Rat(1, 2)),
        Prediction(Rat(1, 2), credit_score, SampleRating(credit_score)),
        Review("Rejected", Num(RatInt(admin_id)), None,
               Str("Incomplete documentation")))

\* Draws of random.randint(350, 850), (600, 850) and (300, 600).
PendingScores == {499, 750}

ApprovedScores == {750}

RejectedScores == {500}

\* The id of the row of Admin the script finds or inserts.
SampleAdminId == 1

\* lines 90-113: the sample user is looked up by email and inserted, with the
\* digest of the sample password, when there is none.
CreateSampleData ==
    /\ populated < MaxRuns
    /\ LET existing == { u \in users : u.email = SampleUser.email }
           user == IF existing # {}
                   THEN CHOOSE u \in existing : TRUE
                   ELSE User(next_user_id, SampleUser.full_name, SampleUser.email,
                             SampleUser.mobile_number, SampleUser.aadhar,
                             pwd_context_hash(SamplePassword))
       IN /\ users' = users \cup {user}
          /\ next_user_id' = IF existing = {} THEN next_user_id + 1 ELSE next_user_id
          /\ \E p \in PendingScores, a \in ApprovedScores, r \in RejectedScores :
                applications' = applications \cup
                    { SamplePending(next_app_id, user, p),
                      SampleApproved(next_app_id + 1, user, a, SampleAdminId),
                      SampleRejected(next_app_id + 2, user, r, SampleAdminId) }
    /\ next_app_id' = next_app_id + 3
    /\ populated' = populated + 1
    /\ response' = Answer("create_sample_data", 0,
                          "Sample data populated successfully!")
    /\ UNCHANGED <<globals, locals>>

(***************************************************************************)
(* The requests, and the service's specification.                          *)
(***************************************************************************)
Emails == { SampleUser.email, "user@example.com" }

Mobiles == { "9876543210", "9876543211" }

Aadhars == { "123456789012", "123456789013" }

SignupRequests ==
    { SignupRequest("New User", e, m, a, SamplePassword) :
        e \in Emails, m \in Mobiles, a \in Aadhars }

LoginRequests ==
    { LoginRequest(i, p) :
        i \in Emails \cup {"9876543210", "123456789013"},
        p \in {SamplePassword, "letmein"} }

LoanRequests == { ExampleLowRisk, ExampleHighRisk }

\* A request of the eleven fields, and one that also carries num_inquiries.
UpdateRequests == { ExampleHighRisk, ExampleHighRisk @@ [num_inquiries |-> 1] }

ApprovalRequests ==
    { ApprovalRequest(None), ApprovalRequest(Num(Float(0))),
      ApprovalRequest(Num(Float(500000))) }

\* The approvals that name an amount.
AmountApprovals == { r \in ApprovalRequests : ~IsNone(r.disbursed_amount) }

RejectionRequests == { RejectionRequest("Incomplete documentation") }

UserIds == 1..next_user_id

\* The ids given so far, and the next one, which no row has.
AppIds == 1..next_app_id

AdminIds == { SampleAdminId }

\* A classifier answering 1/ProbSteps for a secured loan and 1 - 1/ProbSteps
\* for an unsecured one.
ServiceClassifier ==
    Classifier([k \in 0..1 |-> IF k = 0 THEN Num(Rat(1, ProbSteps))
                               ELSE Num(Rat(ProbSteps - 1, ProbSteps))])

\* A bundle whose classifier reads two columns and that has no rescaler.
ColumnBundle ==
    ModelData(ServiceClassifier, None, List(<<"age", "loan_type_Unsecured">>), None)

\* Two applicants who share no email, mobile number or aadhar.
ApplicantSignups ==
    { SignupRequest("New User", SampleUser.email, "9876543210", "123456789012",
                    SamplePassword),
      SignupRequest("New User", "user@example.com", "9876543211", "123456789013",
                    SamplePassword) }

\* The bundle as trained.
TrainedBundle ==
    ModelData(ServiceClassifier, Scaler(Len(ScaledColumns)), List(ExpectedFeatures),
              List(ScaledColumns))

\* The artifact is missing, so that predict takes the heuristic path.
ApplicantBundles == { LoadFailed }

\* The bundle as trained, or one that reads none of the mistyped columns.
AdminBundles == { TrainedBundle, ColumnBundle }

\* The module is imported, the tables are empty, no predict call is in flight.
InitService == \E b \in ApplicantBundles : InitWith({}, b, LoanRequests)

\* Two applicants and the admin at work on the applications; the admin
\* approves without naming an amount.
NextService ==
    \/ \E request \in ApplicantSignups : Signup(request)
    \/ \E user_id \in UserIds, request \in LoanRequests : ApplyForLoan(user_id, request)
    \/ \E app_id \in AppIds, admin_id \in AdminIds :
          ApproveApplication(app_id, ApprovalRequest(None), admin_id)
    \/ \E app_id \in AppIds, request \in RejectionRequests, admin_id \in AdminIds :
          RejectApplication(app_id, request, admin_id)
    \/ \E user_id \in UserIds : DeleteUser(user_id)
    \/ \E app_id \in AppIds : DeleteApplication(app_id)

SpecService == InitService /\ [][NextService]_vars

InitUsers == \E b \in ApplicantBundles : InitWith({}, b, LoanRequests)

\* Accounts and the sample data: every signup request, logins, deletions and
\* the script.
NextUsers ==
    \/ \E request \in SignupRequests : Signup(request)
    \/ \E request \in LoginRequests : Login(request)
    \/ \E user_id \in UserIds : DeleteUser(user_id)
    \/ CreateSampleData

SpecUsers == InitUsers /\ [][NextUsers]_vars

InitAdmin == \E b \in AdminBundles : InitWith({}, b, LoanRequests)

\* The admin at work on the sample applications: approving with an amount,
\* rejecting, updating and deleting them.
NextAdmin ==
    \/ CreateSampleData
    \/ \E app_id \in AppIds, request \in AmountApprovals, admin_id \in AdminIds :
          ApproveApplication(app_id, request, admin_id)
    \/ \E app_id \in AppIds, request \in RejectionRequests, admin_id \in AdminIds :
          RejectApplication(app_id, request, admin_id)
    \/ \E app_id \in AppIds, request \in UpdateRequests : UpdateApplication(app_id, request)
    \/ \E app_id \in AppIds : DeleteApplication(app_id)

SpecAdmin == InitAdmin /\ [][NextAdmin]_vars

(***************************************************************************)
(* Properties.                                                             *)
(***************************************************************************)
Done(c) == pc[c] = "done"

Heuristic(c) == pc[c] = "done" /\ path[c] = "heuristic"

ModelBacked(c) == pc[c] = "done" /\ path[c] = "model"

RatLeq(a, b) == ~RatLess(b, a)

\* The banded contributions as the specification tabulates them, on the raw
\* arguments.
SpecAge(a) ==
    IF a.age < 25 THEN 15 ELSE IF a.age < 35 THEN 10 ELSE IF a.age < 50 THEN 5 ELSE 0

SpecRatio(a) == IF a.income > 0 THEN Rat(a.loan_amount, a.income) ELSE Rat(0, 1)

SpecLoanToIncome(a) ==
    LET q == SpecRatio(a) IN
    IF q[1] > 5 * q[2] THEN 25
    ELSE IF q[1] > 3 * q[2] THEN 15
    ELSE IF q[1] > 2 * q[2] THEN 10
    ELSE 0

SpecDelinquency(a) ==
    IF a.delinquency_ratio > 50 THEN 30
    ELSE IF a.delinquency_ratio > 30 THEN 20
    ELSE IF a.delinquency_ratio > 10 THEN 10
    ELSE 0

SpecUtilization(a) ==
    IF a.credit_utilization_ratio > 80 THEN 20
    ELSE IF a.credit_utilization_ratio > 50 THEN 10
    ELSE IF a.credit_utilization_ratio > 30 THEN 5
    ELSE 0

SpecDpd(a) ==
    IF a.avg_dpd_per_delinquency > 30 THEN 25
    ELSE IF a.avg_dpd_per_delinquency > 15 THEN 15
    ELSE IF a.avg_dpd_per_delinquency > 5 THEN 8
    ELSE 0

SpecAccounts(a) ==
    IF a.num_open_accounts > 3 THEN 10
    ELSE IF a.num_open_accounts < 2 THEN 5
    ELSE 0

SpecResidence(a) ==
    IF a.residence_type = "Rented" THEN 10
    ELSE IF a.residence_type = "Mortgage" THEN 5
    ELSE 0

SpecLoanType(a) == IF a.loan_type = "Unsecured" THEN 15 ELSE 0

SpecOtherSeven(a) ==
    SpecAge(a) + SpecDelinquency(a) + SpecUtilization(a) + SpecDpd(a)
    + SpecAccounts(a) + SpecResidence(a) + SpecLoanType(a)

SpecRisk(a) == SpecOtherSeven(a) + SpecLoanToIncome(a)

\* Rating bands [300,500) [500,650) [650,750) [750,900].
SpecBand(s) ==
    IF s \in 300..499 THEN "Poor"
    ELSE IF s \in 500..649 THEN "Average"
    ELSE IF s \in 650..749 THEN "Good"
    ELSE IF s \in 750..900 THEN "Excellent"
    ELSE "none"

Rank(r) ==
    IF r = "Poor" THEN 1
    ELSE IF r = "Average" THEN 2
    ELSE IF r = "Good" THEN 3
    ELSE IF r = "Excellent" THEN 4
    ELSE 0

\* 300 + (1 - p) * 600 truncated to an integer, for 0 <= p <= 1.
SpecScore(p) == 300 + ((p[2] - p[1]) * 600) \div p[2]

\* C1: whichever path computed it, the returned credit_score is an integer
\* with 300 <= credit_score <= 900.
C1_ScoreInRange ==
    \A c \in DOMAIN pc :
        Done(c) => result[c].credit_score \in 300..900

\* A call answered by the classifier with probability 1: the score is 300.
C1_Witness ==
    \E c \in DOMAIN pc :
        /\ ModelBacked(c)
        /\ result[c].default_probability = Rat(ProbSteps, ProbSteps)
        /\ result[c].credit_score = 300

\* C2 as stated: on both paths 0 <= default_probability <= 0.99.
C2_Original ==
    \A c \in DOMAIN pc :
        Done(c) =>
            /\ RatLeq(Rat(0, 1), result[c].default_probability)
            /\ RatLeq(result[c].default_probability, Rat(99, 100))

\* C2 amended: on the heuristic path 0 <= default_probability <= 0.99; on the
\* model-backed path it is the classifier's probability, not clamped, so
\* 0 <= default_probability <= 1.
C2_ProbabilityRange ==
    \A c \in DOMAIN pc :
        /\ Heuristic(c) =>
              /\ RatLeq(Rat(0, 1), result[c].default_probability)
              /\ RatLeq(result[c].default_probability, Rat(99, 100))
        /\ ModelBacked(c) =>
              /\ RatLeq(Rat(0, 1), result[c].default_probability)
              /\ RatLeq(result[c].default_probability, Rat(1, 1))

\* A model-backed result above 0.99.
C2_Witness ==
    \E c \in DOMAIN pc :
        /\ ModelBacked(c)
        /\ RatLess(Rat(99, 100), result[c].default_probability)

\* C3: with a classifier loaded, when the model-backed computation raises,
\* predict raises nothing and returns the triple calculate_credit_score gives
\* for prepare_input of the same arguments.
C3_FallbackOnRaise ==
    \A c \in DOMAIN pc :
        /\ pc[c] # "error"
        /\ raised[c] => pc[c] \in {"fallback", "done"}
        /\ (raised[c] /\ Done(c)) =>
              /\ path[c] = "heuristic"
              /\ result[c] = calculate_credit_score(prepare_input(args[c]))

\* A call whose model-backed computation raised and that has returned.
C3_Witness ==
    \E c \in DOMAIN pc :
        /\ ~IsNone(model)
        /\ raised[c]
        /\ Done(c)
        /\ result[c].credit_score = 840

\* C4 as stated: a risk score above 100 gives 0.99, credit_score 300, Poor.
C4_Original ==
    \A c \in DOMAIN pc :
        (Heuristic(c) /\ SpecRisk(args[c]) > 100) =>
            /\ RatEq(result[c].default_probability, Rat(99, 100))
            /\ result[c].credit_score = 300
            /\ result[c].rating = "Poor"

\* C4 amended: a risk score above 100 gives default_probability 0.99,
\* credit_score 306 (300 + 0.01 * 600) and rating Poor.
C4_ClampedScore ==
    \A c \in DOMAIN pc :
        /\ (Heuristic(c) /\ SpecRisk(args[c]) > 100) =>
              /\ RatEq(result[c].default_probability, Rat(99, 100))
              /\ result[c].credit_score = 306
              /\ result[c].rating = "Poor"
        /\ (Heuristic(c) /\ args[c] = ExampleHighRisk) =>
              /\ risk_score[c] = Num(RatInt(150))
              /\ result[c].credit_score = 306

\* The high-risk example scored by the heuristic.
C4_Witness ==
    \E c \in DOMAIN pc :
        /\ Heuristic(c)
        /\ args[c] = ExampleHighRisk
        /\ SpecRisk(args[c]) = 150

\* C5: the heuristic risk_score is the sum of the eight banded contributions
\* with strict thresholds; the low-risk example gets 10, 0.10, 840, Excellent.
C5_RiskBands ==
    \A c \in DOMAIN pc :
        /\ Heuristic(c) => risk_score[c] = Num(RatInt(SpecRisk(args[c])))
        /\ (Heuristic(c) /\ args[c] = ExampleLowRisk) =>
              /\ risk_score[c] = Num(RatInt(10))
              /\ RatEq(result[c].default_probability, Rat(10, 100))
              /\ result[c].credit_score = 840
              /\ result[c].rating = "Excellent"

\* The low-risk example (loan_to_income exactly 2, two open accounts) scored
\* by the heuristic.
C5_Witness ==
    \E c \in DOMAIN pc :
        /\ Heuristic(c)
        /\ args[c] = ExampleLowRisk
        /\ args[c].loan_amount = 2 * args[c].income
        /\ args[c].num_open_accounts = 2

\* The credit score the heuristic gives for risk score r.
ScoreOfRisk(r) == HeuristicScore(HeuristicProbability(r), base_score, scale_length)

C6_NonIncreasing ==
    \A r \in 0..149 : ScoreOfRisk(r + 1) <= ScoreOfRisk(r)

\* C6: on the heuristic path default_probability = min(r/100, 0.99),
\* credit_score = 300 + (1 - default_probability) * 600 truncated, which is
\* 900 - 6r for r < 99, and the score never increases with r.
C6_ScoreFromRisk ==
    /\ C6_NonIncreasing
    /\ \A c \in DOMAIN pc :
          Heuristic(c) =>
              LET r == risk_score[c].q[1]
                  p == result[c].default_probability
              IN  /\ r \in 0..150
                  /\ RatEq(p, IF r < 99 THEN Rat(r, 100) ELSE Rat(99, 100))
                  /\ result[c].credit_score = SpecScore(p)
                  /\ r < 99 => result[c].credit_score = 900 - 6 * r

\* A heuristic result past the clamp: risk score 100 or more, score 306.
C6_Witness ==
    \E c \in DOMAIN pc :
        /\ Heuristic(c)
        /\ risk_score[c].q[1] >= 100
        /\ result[c].credit_score = 306

C7_BandsOfGetRating ==
    \A s \in 300..900 : get_rating(s) = SpecBand(s)

C7_Monotone ==
    \A s \in 300..899 : Rank(get_rating(s)) <= Rank(get_rating(s + 1))

\* C7: the heuristic rating is the band of the credit_score alone, monotone
\* in it, and never 'Undefined'.
C7_RatingBands ==
    /\ C7_BandsOfGetRating
    /\ C7_Monotone
    /\ \A c \in DOMAIN pc :
          Heuristic(c) =>
              /\ result[c].rating = SpecBand(result[c].credit_score)
              /\ result[c].rating # "Undefined"

\* A heuristic result exactly on a band edge: risk score 25, score 750.
C7_Witness ==
    \E c \in DOMAIN pc :
        /\ Heuristic(c)
        /\ result[c].credit_score = 750
        /\ result[c].rating = "Excellent"

\* C8: with income <= 0 nothing is raised and loan_to_income is 0, so that
\* factor adds nothing to the risk score; with income > 0 it is
\* loan_amount / income.
C8_IncomeGuard ==
    \A c \in DOMAIN pc :
        /\ pc[c] # "error"
        /\ pc[c] # "call" =>
              /\ input_data[c].loan_to_income = SpecRatio(args[c])
              /\ args[c].income <= 0 => input_data[c].loan_to_income[1] = 0
        /\ (~IsNone(df[c]) /\ ~df[c].row["loan_to_income"].scaled) =>
              df[c].row["loan_to_income"].v = SpecRatio(args[c])
        /\ (Heuristic(c) /\ args[c].income <= 0) =>
              risk_score[c] = Num(RatInt(SpecOtherSeven(args[c])))

\* A heuristic result for an applicant with income 0 and a loan.
C8_Witness ==
    \E c \in DOMAIN pc :
        /\ Heuristic(c)
        /\ args[c].income = 0
        /\ args[c].loan_amount > 0

\* C9 as stated: with a classifier loaded and no exception the result is the
\* model-backed one; the heuristic is used only without a classifier or after
\* an exception.
C9_Original ==
    \A c \in DOMAIN pc :
        Done(c) =>
            /\ (~IsNone(model) /\ ~raised[c]) => path[c] = "model"
            /\ path[c] = "heuristic" => (IsNone(model) \/ raised[c])

\* C9 amended: with a classifier loaded together with a non-empty feature
\* list, and no exception, the result is the model-backed one (the
\* classifier's probability p and int(300 + (1 - p) * 600)); the heuristic
\* is used only without a classifier, without a non-empty feature list, or
\* after an exception.
C9_PathChoice ==
    \A c \in DOMAIN pc :
        Done(c) =>
            /\ (~IsNone(model) /\ ~IsNone(features_list)
                /\ features_list.items # <<>> /\ ~raised[c]) =>
                  /\ path[c] = "model"
                  /\ result[c].default_probability
                        = model.proba[IF args[c].loan_type = "Unsecured" THEN 1 ELSE 0].q
                  /\ result[c].credit_score = SpecScore(result[c].default_probability)
            /\ path[c] = "heuristic" =>
                  \/ IsNone(model)
                  \/ IsNone(features_list)
                  \/ features_list.items = <<>>
                  \/ raised[c]

\* A model-backed result whose score is truncated: p = 2/7, 728.57 -> 728.
C9_Witness ==
    \E c \in DOMAIN pc :
        /\ ModelBacked(c)
        /\ ~raised[c]
        /\ (600 * (result[c].default_probability[2] - result[c].default_probability[1]))
               % result[c].default_probability[2] # 0
        /\ result[c].credit_score = SpecScore(result[c].default_probability)

\* C10: predict never writes the module-level objects; under any
\* interleaving each caller gets what a call on its own gives for the same
\* arguments and the same loaded bundle, and equal arguments give equal
\* triples.
C10_Pure ==
    /\ [][UNCHANGED globals]_vars
    /\ [](\A c \in DOMAIN pc : Done(c) => result[c] = predict(args[c]))
    /\ [](\A c1, c2 \in DOMAIN pc :
            (Done(c1) /\ Done(c2) /\ args[c1] = args[c2]) => result[c1] = result[c2])

\* Two calls in flight on one bundle have both returned, one from the
\* classifier and one through the except block.
C10_Witness ==
    \E c1, c2 \in DOMAIN pc :
        /\ c1 # c2
        /\ ModelBacked(c1)
        /\ Done(c2)
        /\ raised[c2]

(***************************************************************************)
(* Properties of the service.                                              *)
(***************************************************************************)
\* The sample user as create_sample_data inserted it.
SampleUserCreated(u) ==
    /\ u.email = SampleUser.email
    /\ u.hashed_password = pwd_context_hash(SamplePassword)

\* C11: once create_sample_data has inserted the sample user
\* rajesh.kumar@example.com, a login with that email and the password
\* "password123", which the script prints, is answered 200.
C11_SampleLogin ==
    [][ (/\ \E u \in users : SampleUserCreated(u)
         /\ Login(LoginRequest(SampleUser.email, SamplePassword)))
        => response'.code = 200 ]_vars

\* C12: update_application on an existing application is answered 200 for a
\* valid request, and the row then holds the request's attributes together
\* with the credit_score, rating and default_probability predict gives for
\* them.
C12_UpdateRecalculates ==
    [][ \A app_id \in AppIds, request \in UpdateRequests :
          (/\ response'.op = "update_application"
           /\ \E app \in applications : app.id = app_id
           /\ UpdateApplication(app_id, request))
          => /\ response'.code = 200
             /\ \E app \in applications' :
                   /\ app.id = app_id
                   /\ Attributes(app) = AttributeColumns(request)
                   /\ app.credit_score = predict(request).credit_score
                   /\ app.rating = predict(request).rating
                   /\ app.default_probability = predict(request).default_probability
      ]_vars

\* What the claims say of a step of approve_application or reject_application
\* on app_id: 404 and 400 leave both tables as they are, 200 gives the pending
\* row the new status and leaves every other row as it is.
ReviewStep(app_id, status) ==
    IF ~\E app \in applications : app.id = app_id
    THEN /\ response'.code = 404
         /\ response'.detail = "Application not found"
         /\ UNCHANGED <<applications, users>>
    ELSE LET app == CHOOSE x \in applications : x.id = app_id IN
         IF app.status # "Pending"
         THEN /\ response'.code = 400
              /\ response'.detail = "Application already processed"
              /\ UNCHANGED <<applications, users>>
         ELSE /\ response'.code = 200
              /\ \E new \in applications' :
                    /\ new.id = app_id
                    /\ new.status = status
                    /\ applications' \ {new} = applications \ {app}
              /\ UNCHANGED users

\* C13: approve_application and reject_application change the status only of
\* a Pending application; on a processed one they answer 400 'Application
\* already processed', on an unknown id 404, and leave every row as it is.
\* No step changes the status of a row that is Approved or Rejected, so the
\* status of an application changes at most once.
C13_ProcessedOnce ==
    /\ [][ \A app_id \in AppIds, admin_id \in AdminIds :
             /\ \A request \in ApprovalRequests :
                   (/\ response'.op = "approve_application"
                    /\ ApproveApplication(app_id, request, admin_id))
                       => ReviewStep(app_id, "Approved")
             /\ \A request \in RejectionRequests :
                   (/\ response'.op = "reject_application"
                    /\ RejectApplication(app_id, request, admin_id))
                       => ReviewStep(app_id, "Rejected") ]_vars
    /\ [][ \A old \in applications, new \in applications' :
             (old.id = new.id /\ old.status \in {"Approved", "Rejected"})
                 => new.status = old.status ]_vars

\* A second decision on an approved application was refused.
C13_Witness ==
    /\ response.op = "reject_application"
    /\ response.code = 400
    /\ \E app \in applications : app.status = "Approved"
    /\ \A app \in applications : app.status # "Rejected"

\* C14: apply_for_loan stores every new application with status Pending,
\* whatever its score and rating, and a Pending row leaves that status only
\* in a step of approve_application or reject_application answered 200.
C14_PendingUntilReviewed ==
    /\ [][ \A user_id \in UserIds, request \in LoanRequests :
             (/\ response'.op = "apply_for_loan"
              /\ response'.code = 201
              /\ ApplyForLoan(user_id, request))
                 => \E new \in applications' :
                       /\ new.id = next_app_id
                       /\ new \notin applications
                       /\ new.user_id = user_id
                       /\ new.credit_score = predict(request).credit_score
                       /\ new.status = "Pending" ]_vars
    /\ [][ \A old \in applications, new \in applications' :
             (old.id = new.id /\ old.status = "Pending" /\ new.status # "Pending")
                 => /\ response'.op \in {"approve_application", "reject_application"}
                    /\ response'.code = 200 ]_vars

\* An application rated Excellent and one rated Poor are both stored Pending,
\* the second just submitted.
C14_Witness ==
    /\ response.op = "apply_for_loan"
    /\ response.code = 201
    /\ \E app \in applications : app.rating = "Excellent" /\ app.status = "Pending"
    /\ \E app \in applications : app.rating = "Poor" /\ app.status = "Pending"

\* The row holds the eleven attributes of the request.
SameAttributes(app, request) ==
    \A n \in AttributeNames : app[n] = AttributeColumns(request)[n]

\* C15: apply_for_loan answers 400 'Identical application already exists',
\* and stores nothing, when the user already has an application with the same
\* eleven attributes; the same attributes from another user are accepted; no
\* user ever has two stored applications with the same attributes.
C15_NoIdenticalApplication ==
    /\ [][ \A user_id \in UserIds, request \in LoanRequests :
             (/\ response'.op = "apply_for_loan"
              /\ \E u \in users : u.id = user_id
              /\ ApplyForLoan(user_id, request))
                 => IF \E app \in applications :
                          app.user_id = user_id /\ SameAttributes(app, request)
                    THEN /\ response'.code = 400
                         /\ response'.detail = "Identical application already exists"
                         /\ applications' = applications
                    ELSE /\ response'.code = 201
                         /\ \E new \in applications' \ applications :
                               /\ new.user_id = user_id
                               /\ SameAttributes(new, request)
                               /\ applications' = applications \cup {new} ]_vars
    /\ [](\A a1, a2 \in applications :
             (a1.user_id = a2.user_id /\ Attributes(a1) = Attributes(a2)) => a1 = a2)

\* Two users hold applications with the same attributes, and a third
\* submission of them by one of the two was refused.
C15_Witness ==
    /\ response.op = "apply_for_loan"
    /\ response.code = 400
    /\ \E a1, a2 \in applications :
          a1.user_id # a2.user_id /\ Attributes(a1) = Attributes(a2)

\* The request shares its email, mobile number or aadhar with a stored user.
SharesIdentity(request) ==
    \E u \in users :
        \/ u.email = request.email
        \/ u.mobile_number = request.mobile_number
        \/ u.aadhar = request.aadhar

\* C16: a signup whose email, mobile number or aadhar belongs to a stored
\* user is answered 400 and adds no user, any other signup adds the user; as
\* long as users come from signup alone no two stored users share an email, a
\* mobile number or an aadhar.
C16_UniqueIdentity ==
    /\ [][ \A request \in SignupRequests :
             (response'.op = "signup" /\ Signup(request))
                 => IF SharesIdentity(request)
                    THEN /\ response'.code = 400
                         /\ users' = users
                    ELSE /\ response'.code = 201
                         /\ \E new \in users' \ users :
                               /\ new.email = request.email
                               /\ new.mobile_number = request.mobile_number
                               /\ new.aadhar = request.aadhar
                               /\ users' = users \cup {new} ]_vars
    /\ [](populated = 0 =>
            \A u1, u2 \in users :
                (\/ u1.email = u2.email
                 \/ u1.mobile_number = u2.mobile_number
                 \/ u1.aadhar = u2.aadhar) => u1 = u2)

\* A signup that shares only the aadhar of the stored user was refused and
\* the user is still the only one.
C16_Witness ==
    /\ response.op = "signup"
    /\ response.code = 400
    /\ response.detail = "Aadhar already registered"
    /\ Cardinality(users) = 1
    /\ populated = 0

\* C17: every stored application belongs to a stored user; apply_for_loan
\* answers 404 for a user_id that no user has and stores nothing; delete_user
\* removes the user together with all of that user's applications and no
\* application of another user.
C17_ReferentialIntegrity ==
    /\ [](\A app \in applications : \E u \in users : u.id = app.user_id)
    /\ [][ \A user_id \in UserIds, request \in LoanRequests :
             (/\ response'.op = "apply_for_loan"
              /\ ~\E u \in users : u.id = user_id
              /\ ApplyForLoan(user_id, request))
                 => /\ response'.code = 404
                    /\ response'.detail = "User not found"
                    /\ UNCHANGED <<applications, users>> ]_vars
    /\ [][ \A user_id \in UserIds :
             (response'.op = "delete_user" /\ DeleteUser(user_id))
                 => IF \E u \in users : u.id = user_id
                    THEN /\ response'.code = 200
                         /\ \A u \in users : u \in users' <=> u.id # user_id
                         /\ \A app \in applications :
                               app \in applications' <=> app.user_id # user_id
                         /\ users' \subseteq users
                         /\ applications' \subseteq applications
                    ELSE /\ response'.code = 404
                         /\ UNCHANGED <<applications, users>> ]_vars

\* Two applications were stored, a user was deleted, and the first
\* application, of the user who is left, is still stored.
C17_Witness ==
    /\ response.op = "delete_user"
    /\ response.code = 200
    /\ next_app_id = 3
    /\ Cardinality(users) = 1
    /\ Cardinality(applications) = 1
    /\ \A app \in applications : app.id = 1

\* C18: every stored application has one of the statuses Pending, Approved,
\* Rejected; the three counts of get_dashboard_stats add up to its total; every
\* stored application is listed by exactly one of get_pending_applications and
\* the unfiltered get_application_history.
C18_StatusPartition ==
    /\ \A app \in applications : app.status \in {"Pending", "Approved", "Rejected"}
    /\ get_dashboard_stats.approved_count + get_dashboard_stats.rejected_count
          + get_dashboard_stats.pending_count = get_dashboard_stats.total_applications
    /\ get_dashboard_stats.total_applications = Cardinality(applications)
    /\ \A app \in applications :
          (app.id \in get_pending_applications) # (app.id \in get_application_history)
    /\ get_pending_applications \cup get_application_history
          = { app.id : app \in applications }

\* One application is pending and one was rejected.
C18_Witness ==
    /\ get_dashboard_stats.pending_count = 1
    /\ get_dashboard_stats.rejected_count = 1
    /\ get_dashboard_stats.total_applications = 2
    /\ Cardinality(get_application_history) = 1

\* C19: a successful approve_application sets disbursed_amount to the
\* request's disbursed_amount whenever one is given, a given amount of 0
\* included, and to the application's loan_amount only when none is given.
C19_DisbursedAsGiven ==
    [][ \A app_id \in AppIds, request \in ApprovalRequests, admin_id \in AdminIds :
          (/\ response'.op = "approve_application"
           /\ response'.code = 200
           /\ ApproveApplication(app_id, request, admin_id))
          => \E old \in applications, new \in applications' :
                /\ old.id = app_id
                /\ new.id = app_id
                /\ new.status = "Approved"
                /\ new.disbursed_amount =
                      IF IsNone(request.disbursed_amount)
                      THEN Num(Float(old.loan_amount))
                      ELSE request.disbursed_amount ]_vars

\* The two tables agree on every integer score from 300 to 900.
C20_BandsAgree == \A s \in 300..900 : ModelRating(s) = get_rating(s)

\* C20: the rating policy of the model-backed path and the band table of the
\* heuristic path give the same rating to every integer credit_score from 300
\* to 900, and every returned triple carries that rating for its score,
\* whichever path produced it.
C20_SameBands ==
    /\ C20_BandsAgree
    /\ \A c \in DOMAIN pc :
          Done(c) =>
              /\ result[c].credit_score \in 300..900
              /\ result[c].rating = ModelRating(result[c].credit_score)
              /\ result[c].rating = get_rating(result[c].credit_score)

\* A model-backed call has returned a score in the band of Good.
C20_Witness ==
    \E c \in DOMAIN pc :
        /\ ModelBacked(c)
        /\ result[c].rating = "Good"
        /\ get_rating(result[c].credit_score) = "Good"

\* The band of a credit score: Poor below 500, Average 500..649, Good
\* 650..749, Excellent from 750.
RatingBand(credit_score) ==
    IF credit_score < 500 THEN "Poor"
    ELSE IF credit_score < 650 THEN "Average"
    ELSE IF credit_score < 750 THEN "Good"
    ELSE "Excellent"

\* C21: every stored loan application, whether apply_for_loan or the
\* sample-data script created it, has a rating among Poor, Average, Good and
\* Excellent, and that rating is the band of its stored credit_score.
C21_RatingIsBand ==
    \A app \in applications :
        /\ app.rating \in {"Poor", "Average", "Good", "Excellent"}
        /\ app.rating = RatingBand(app.credit_score)
=============================================================================
